---------------------------- MODULE Spec2Model ----------------------------
(***************************************************************************)
(* Model of 2D_Feature_Tracking/src/matching2D_Student.cpp: the five free  *)
(* functions matchDescriptors, descKeypoints, detKeypointsShiTomasi,       *)
(* detKeypointsHarris and detKeypointsModern.                              *)
(*                                                                         *)
(* A behaviour is one client session: the client picks one function and    *)
(* its arguments (Init), then calls it up to MaxCalls times in a row on    *)
(* the same output container.  The external vision library is modelled by  *)
(* its answers for the session's image / descriptors (knnResult,           *)
(* dst_norm, features), which are part of the input.                       *)
(***************************************************************************)
EXTENDS Integers, Sequences, FiniteSets, TLC

VARIABLES
    fn,          \* the function the client calls in this session
    pc,          \* position of the running call ("idle" before the first call)
    calls,       \* number of calls started so far
    args,        \* the string / bool arguments of the call
    knnResult,   \* library: the k=2 candidate lists for (descSource, descRef)
    dst_norm,    \* library: normalised Harris response matrix of img
    features,    \* library: interest points found in img
    matches,     \* std::vector<cv::DMatch> &matches
    keypoints,   \* std::vector<cv::KeyPoint> &keypoints
    descriptors, \* cv::Mat &descriptors
    matcher,     \* cv::Ptr<cv::DescriptorMatcher> matcher
    extractor,   \* cv::Ptr<cv::DescriptorExtractor> extractor
    detector,    \* cv::Ptr<cv::FeatureDetector> detector
    libOps,      \* library match/detect/compute operations invoked by this call
    windows,     \* cv::namedWindow calls made by this call
    waits,       \* cv::waitKey calls made by this call
    j,           \* Harris scan: row
    i,           \* Harris scan: column
    candidates,  \* Harris scan: pixels that passed the minResponse test
    matches0,    \* matches as it was when the running call started
    keypoints0   \* keypoints as it was when the running call started

vars == <<fn, pc, calls, args, knnResult, dst_norm, features, matches, keypoints,
          descriptors, matcher, extractor, detector, libOps, windows, waits,
          j, i, candidates, matches0, keypoints0>>

---------------------------------------------------------------------------
(* Bounds of the model *)

MaxCalls == 2
MaxQuery == 2
MaxFeatures == 2
Rows == 2
Cols == 7
MaxCorners == 1
NmsCorners == 3

---------------------------------------------------------------------------
(* Program constants *)

minDistanceRatioNum == 8
minDistanceRatioDen == 10
knnK == 2
shiBlockSize == 4
apertureSize == 3
minResponse == 100
maxOverlap == 0

null == "null"

---------------------------------------------------------------------------
(* matchDescriptors *)

MatcherTypes == {"MAT_BF", "MAT_FLANN", "MAT_KNN"}
DescriptorClasses == {"DES_BINARY", "DES_HOG", "DES_SIFT"}
SelectorTypes == {"SEL_NN", "SEL_KNN", "SEL_RADIUS"}

Throw(what) == [type |-> "invalid_argument", normType |-> what, crossCheck |-> FALSE,
                indexParams |-> <<>>]

BFMatcher(normType, crossCheck) ==
    [type |-> "BFMatcher", normType |-> normType, crossCheck |-> crossCheck,
     indexParams |-> <<>>]

FlannBasedMatcher(indexParams) ==
    [type |-> "FlannBasedMatcher", normType |-> "n/a", crossCheck |-> FALSE,
     indexParams |-> indexParams]

\* Mutant of ConfigureMatcher: the two norms of the brute-force branch swapped.
ConfigureMatcherSwapped(matcherType, descriptorType) ==
    IF matcherType = "MAT_BF"
    THEN IF descriptorType = "DES_BINARY" THEN BFMatcher("NORM_L2", FALSE)
         ELSE IF descriptorType = "DES_HOG" THEN BFMatcher("NORM_HAMMING", FALSE)
         ELSE Throw("invalid descriptorType")
    ELSE IF matcherType = "MAT_FLANN"
    THEN IF descriptorType = "DES_HOG" THEN FlannBasedMatcher(<<"default">>)
         ELSE IF descriptorType = "DES_BINARY"
              THEN FlannBasedMatcher(<<"LshIndexParams", 12, 20, 2>>)
         ELSE Throw("invalid descriptorType")
    ELSE Throw("invalid matcherType")

\* Lines 10-49: the matcher chosen for (matcherType, descriptorType), or the
\* exception thrown.  std::string::compare returns 0 exactly on equal strings.
ConfigureMatcher(matcherType, descriptorType) ==
    LET crossCheck == FALSE IN
    IF matcherType = "MAT_BF"
    THEN IF descriptorType = "DES_BINARY" THEN BFMatcher("NORM_HAMMING", crossCheck)
         ELSE IF descriptorType = "DES_HOG" THEN BFMatcher("NORM_L2", crossCheck)
         ELSE Throw("invalid descriptorType")
    ELSE IF matcherType = "MAT_FLANN"
    THEN IF descriptorType = "DES_HOG" THEN FlannBasedMatcher(<<"default">>)
         ELSE IF descriptorType = "DES_BINARY"
              THEN FlannBasedMatcher(<<"LshIndexParams", 12, 20, 2>>)
         ELSE Throw("invalid descriptorType")
    ELSE Throw("invalid matcherType")

\* cv::DMatch
DMatch(queryIdx, trainIdx, distance) ==
    [queryIdx |-> queryIdx, trainIdx |-> trainIdx, distance |-> distance]

\* Distances are whole numbers; for those the double product 0.8 * d rounds to
\* the exact value of 8 * d / 10, so the comparison is done in integers.
Distances == {3, 4, 5}

\* The candidate lists knnMatch(k = 2) can return for query q: none, one or
\* two candidates, best first.
CandidateLists(q) ==
    {<<>>}
    \cup {<<DMatch(q, 0, d)>> : d \in Distances}
    \cup {<<DMatch(q, 0, d[1]), DMatch(q, 1, d[2])>> :
            d \in {e \in Distances \X Distances : e[1] <= e[2]}}

RECURSIVE KnnResults(_)
KnnResults(n) ==
    IF n = 0 THEN {<<>>}
    ELSE LET shorter == KnnResults(n - 1) IN
         shorter \cup {Append(r, c) : r \in {s \in shorter : Len(s) = n - 1},
                                      c \in CandidateLists(n - 1)}

\* matcher->knnMatch(descSource, descRef, kmatches, 2)
knnMatch(k) == [q \in DOMAIN knnResult |->
                  SubSeq(knnResult[q], 1, IF Len(knnResult[q]) < k THEN Len(knnResult[q]) ELSE k)]

RECURSIVE Heads(_)
Heads(kms) ==
    IF kms = <<>> THEN <<>>
    ELSE (IF Head(kms) = <<>> THEN <<>> ELSE <<Head(kms)[1]>>) \o Heads(Tail(kms))

\* matcher->match(descSource, descRef, matches): the library clears matches
\* and stores the best candidate of every query that has one.
match == Heads(knnMatch(1))

\* Mutant of RatioTest: <= in place of <.
RatioTestNotStrict(kmatch) ==
    /\ Len(kmatch) = 2
    /\ minDistanceRatioDen * kmatch[1].distance <= minDistanceRatioNum * kmatch[2].distance

\* Line 65: kmatch.size()==2 && kmatch[0].distance < minDistanceRatio*kmatch[1].distance
RatioTest(kmatch) ==
    /\ Len(kmatch) = 2
    /\ minDistanceRatioDen * kmatch[1].distance < minDistanceRatioNum * kmatch[2].distance

\* Lines 63-69: the loop over kmatches, pushing onto acc.
RECURSIVE FilterKnn(_, _)
FilterKnn(kmatches, acc) ==
    IF kmatches = <<>> THEN acc
    ELSE FilterKnn(Tail(kmatches),
                   IF RatioTest(Head(kmatches)) THEN Append(acc, Head(kmatches)[1]) ELSE acc)

---------------------------------------------------------------------------
(* descKeypoints *)

ExtractorNames == {"BRISK", "BRIEF", "ORB", "FREAK", "AKAZE", "SIFT"}
DescriptorTypes == ExtractorNames \cup {"SURF", "brisk"}

\* Lines 82-111: the extractor created for descriptorType; the if / else-if
\* chain has no final else, so any other string leaves the Ptr empty.
SelectExtractor(descriptorType) ==
    IF descriptorType = "BRISK" THEN "BRISK"
    ELSE IF descriptorType = "BRIEF" THEN "BriefDescriptorExtractor"
    ELSE IF descriptorType = "ORB" THEN "ORB"
    ELSE IF descriptorType = "FREAK" THEN "FREAK"
    ELSE IF descriptorType = "AKAZE" THEN "AKAZE"
    ELSE IF descriptorType = "SIFT" THEN "SIFT"
    ELSE null

\* extractor->compute(img, keypoints, descriptors): one row per keypoint.
compute(ex, kps) == [k \in DOMAIN kps |-> <<ex, kps[k].pt>>]

---------------------------------------------------------------------------
(* Keypoints and the three detectors *)

\* cv::KeyPoint
KeyPoint(pt, size, response) == [pt |-> pt, size |-> size, response |-> response]

Points == {<<0, 0>>, <<3, 1>>}

RECURSIVE FeatureLists(_)
FeatureLists(n) ==
    IF n = 0 THEN {<<>>}
    ELSE LET shorter == FeatureLists(n - 1) IN
         shorter \cup {Append(f, p) : f \in {s \in shorter : Len(s) = n - 1}, p \in Points}

\* Lines 134-145: goodFeaturesToTrack fills a fresh vector corners; every corner
\* is pushed onto keypoints.
RECURSIVE PushCorners(_, _)
PushCorners(corners, kps) ==
    IF corners = <<>> THEN kps
    ELSE PushCorners(Tail(corners), Append(kps, KeyPoint(Head(corners), shiBlockSize, 0)))

DetectorNames == {"FAST", "BRISK", "ORB", "AKAZE", "SIFT"}
DetectorTypes == DetectorNames \cup {"HARRIS", "fast"}

\* Mutant of SelectDetector: an unknown name silently falls back to FAST.
SelectDetectorDefaulting(detectorType) ==
    IF detectorType = "BRISK" THEN "BRISK"
    ELSE IF detectorType = "ORB" THEN "ORB"
    ELSE IF detectorType = "AKAZE" THEN "AKAZE"
    ELSE IF detectorType = "SIFT" THEN "SIFT"
    ELSE "FastFeatureDetector"

\* Lines 241-264: the detector created for detectorType, or the exception.
SelectDetector(detectorType) ==
    IF detectorType = "FAST" THEN "FastFeatureDetector"
    ELSE IF detectorType = "BRISK" THEN "BRISK"
    ELSE IF detectorType = "ORB" THEN "ORB"
    ELSE IF detectorType = "AKAZE" THEN "AKAZE"
    ELSE IF detectorType = "SIFT" THEN "SIFT"
    ELSE "invalid_argument"

\* detector->detect(img, keypoints): the library replaces the contents of
\* keypoints by what it finds in img.
detect(det) == [k \in DOMAIN features |-> KeyPoint(features[k], 7, 0)]

---------------------------------------------------------------------------
(* detKeypointsHarris *)

Pixels == (0 .. Rows - 1) \X (0 .. Cols - 1)

\* A float of dst_norm: its integral part and its fraction in tenths.
Float(whole, tenths) == [whole |-> whole, tenths |-> tenths]

\* (int) of a non-negative float truncates.
IntCast(f) == f.whole

\* cv::normalize(.., 0, 255, NORM_MINMAX): the smallest response becomes 0 and
\* the largest 255; a constant response becomes 0 everywhere.
Background == Float(0, 0)
Brightest == Float(255, 0)
CornerValues == {Float(100, 5), Float(101, 7), Brightest}

Blank == [p \in Pixels |-> Background]

RECURSIVE Sprinkle(_, _)
Sprinkle(S, n) ==
    IF n = 0 THEN S
    ELSE Sprinkle(S \cup {[m EXCEPT ![p] = v] : m \in S, p \in Pixels, v \in CornerValues},
                  n - 1)

\* The response matrices with at most n pixels above the background.
ResponseMatrices(n) ==
    {m \in Sprinkle({Blank}, n) : m = Blank \/ \E p \in Pixels : m[p] = Brightest}

\* cv::KeyPoint::overlap(kp1, kp2): the ratio intersection / union of the two
\* discs of diameter size.  Only its sign is modelled: 1 stands for any
\* positive ratio, which is the case exactly when the centres are closer than
\* the sum of the radii.
overlap(kp1, kp2) ==
    LET dx == kp1.pt[1] - kp2.pt[1]
        dy == kp1.pt[2] - kp2.pt[2]
    IN  IF 4 * (dx * dx + dy * dy) < (kp1.size + kp2.size) * (kp1.size + kp2.size)
        THEN 1 ELSE 0

\* Line 195: int response=(int)dst_norm.at<float>(j,i)
Response(row, col) == IntCast(dst_norm[<<row, col>>])

\* Line 196: if(response>minResponse)
IsCandidate(response) == response > minResponse

\* Lines 203-219: the loop over keypoints for newKeyPoint, from iterator
\* position it on, and the push_back after it.
RECURSIVE Suppress(_, _, _, _)
Suppress(kps, newKeyPoint, it, foundOverlap) ==
    IF it > Len(kps)
    THEN IF foundOverlap THEN kps ELSE Append(kps, newKeyPoint)
    ELSE IF overlap(newKeyPoint, kps[it]) > maxOverlap
         THEN IF newKeyPoint.response > kps[it].response
              THEN [kps EXCEPT ![it] = newKeyPoint]
              ELSE Suppress(kps, newKeyPoint, it + 1, TRUE)
         ELSE Suppress(kps, newKeyPoint, it + 1, foundOverlap)

\* Lines 195-220: the body of the scan for pixel (row, col).
ScanPixel(kps, row, col) ==
    IF IsCandidate(Response(row, col))
    THEN Suppress(kps, KeyPoint(<<col, row>>, 2 * apertureSize, Response(row, col)), 1, FALSE)
    ELSE kps

---------------------------------------------------------------------------
(* The client session *)

StaleMatch == DMatch(0, 1, 5)
StaleKeyPoint == KeyPoint(<<6, 0>>, 31, 0)

NoMatcher == [type |-> null, normType |-> "n/a", crossCheck |-> FALSE, indexParams |-> <<>>]

Idle ==
    /\ pc = "idle"
    /\ calls = 0
    /\ matcher = NoMatcher
    /\ extractor = null
    /\ detector = null
    /\ libOps = <<>>
    /\ windows = 0
    /\ waits = 0
    /\ j = 0
    /\ i = 0
    /\ candidates = {}
    /\ matches0 = matches
    /\ keypoints0 = keypoints

InitMatch ==
    /\ fn = "matchDescriptors"
    /\ args \in [descriptorType : DescriptorClasses, matcherType : MatcherTypes,
                 selectorType : SelectorTypes]
    /\ knnResult \in KnnResults(MaxQuery)
    /\ dst_norm = <<>>
    /\ features = <<>>
    /\ matches \in {<<>>, <<StaleMatch>>}
    /\ keypoints = <<>>
    /\ descriptors = <<>>
    /\ Idle

InitDesc ==
    /\ fn = "descKeypoints"
    /\ args \in [descriptorType : DescriptorTypes]
    /\ knnResult = <<>>
    /\ dst_norm = <<>>
    /\ features = <<>>
    /\ matches = <<>>
    /\ keypoints \in {[k \in DOMAIN f |-> KeyPoint(f[k], 7, 0)] : f \in FeatureLists(MaxFeatures)}
    /\ descriptors \in {<<>>, <<<<"stale", <<0, 0>>>>>>}
    /\ Idle

InitShiTomasi ==
    /\ fn = "detKeypointsShiTomasi"
    /\ args \in [bVis : BOOLEAN]
    /\ knnResult = <<>>
    /\ dst_norm = <<>>
    /\ features \in FeatureLists(MaxFeatures)
    /\ matches = <<>>
    /\ keypoints \in {<<>>, <<StaleKeyPoint>>}
    /\ descriptors = <<>>
    /\ Idle

InitHarris(n) ==
    /\ fn = "detKeypointsHarris"
    /\ args \in [bVis : BOOLEAN]
    /\ knnResult = <<>>
    /\ dst_norm \in ResponseMatrices(n)
    /\ features = <<>>
    /\ matches = <<>>
    /\ keypoints \in {<<>>, <<StaleKeyPoint>>}
    /\ descriptors = <<>>
    /\ Idle

InitModern ==
    /\ fn = "detKeypointsModern"
    /\ args \in [detectorType : DetectorTypes, bVis : BOOLEAN]
    /\ knnResult = <<>>
    /\ dst_norm = <<>>
    /\ features \in FeatureLists(MaxFeatures)
    /\ matches = <<>>
    /\ keypoints \in {<<>>, <<StaleKeyPoint>>}
    /\ descriptors = <<>>
    /\ Idle

Init == InitMatch \/ InitDesc \/ InitShiTomasi \/ InitHarris(MaxCorners) \/ InitModern

Entry ==
    CASE fn = "matchDescriptors" -> "m_configure"
      [] fn = "descKeypoints" -> "d_select"
      [] fn = "detKeypointsShiTomasi" -> "s_detect"
      [] fn = "detKeypointsHarris" -> "h_response"
      [] fn = "detKeypointsModern" -> "k_select"

inputs == <<fn, args, knnResult, dst_norm, features>>

\* The client calls fn: on fresh containers first, then again on the
\* containers the previous call returned.
Call ==
    /\ pc \in {"idle", "done"}
    /\ calls < MaxCalls
    /\ calls' = calls + 1
    /\ pc' = Entry
    /\ matcher' = NoMatcher
    /\ extractor' = null
    /\ detector' = null
    /\ libOps' = <<>>
    /\ windows' = 0
    /\ waits' = 0
    /\ j' = 0
    /\ i' = 0
    /\ candidates' = {}
    /\ matches0' = matches
    /\ keypoints0' = keypoints
    /\ UNCHANGED <<inputs, matches, keypoints, descriptors>>

---------------------------------------------------------------------------
(* matchDescriptors, lines 7-75 *)

\* Lines 10-49
MatchConfigure ==
    /\ pc = "m_configure"
    /\ LET m == ConfigureMatcher(args.matcherType, args.descriptorType) IN
       IF m.type = "invalid_argument"
       THEN pc' = "thrown" /\ UNCHANGED matcher
       ELSE pc' = "m_match" /\ matcher' = m
    /\ UNCHANGED <<inputs, calls, matches, keypoints, descriptors, extractor, detector,
                   libOps, windows, waits, j, i, candidates, matches0, keypoints0>>

\* Lines 51-74
MatchSelect ==
    /\ pc = "m_match"
    /\ IF args.selectorType = "SEL_NN"
       THEN /\ libOps' = Append(libOps, <<"match", matcher>>)
            /\ matches' = match
            /\ pc' = "done"
       ELSE IF args.selectorType = "SEL_KNN"
       THEN /\ libOps' = Append(libOps, <<"knnMatch", matcher, knnK>>)
            /\ matches' = FilterKnn(knnMatch(knnK), matches)
            /\ pc' = "done"
       ELSE /\ pc' = "thrown"
            /\ UNCHANGED <<libOps, matches>>
    /\ UNCHANGED <<inputs, calls, keypoints, descriptors, matcher, extractor, detector,
                   windows, waits, j, i, candidates, matches0, keypoints0>>

---------------------------------------------------------------------------
(* descKeypoints, lines 79-118 *)

\* Lines 82-111
DescSelect ==
    /\ pc = "d_select"
    /\ extractor' = SelectExtractor(args.descriptorType)
    /\ pc' = "d_compute"
    /\ UNCHANGED <<inputs, calls, matches, keypoints, descriptors, matcher, detector,
                   libOps, windows, waits, j, i, candidates, matches0, keypoints0>>

\* Lines 114-117.  extractor->compute through an empty Ptr is a call through a
\* null pointer: the process may crash, or go on with anything in descriptors.
DescCompute ==
    /\ pc = "d_compute"
    /\ libOps' = Append(libOps, <<"compute", extractor>>)
    /\ IF extractor # null
       THEN /\ descriptors' = compute(extractor, keypoints)
            /\ pc' = "done"
       ELSE /\ pc' \in {"crashed", "done"}
            /\ descriptors' \in {descriptors, <<>>}
    /\ UNCHANGED <<inputs, calls, matches, keypoints, matcher, extractor, detector,
                   windows, waits, j, i, candidates, matches0, keypoints0>>

---------------------------------------------------------------------------
(* detKeypointsShiTomasi, lines 121-159 *)

\* Lines 123-147
ShiTomasiDetect ==
    /\ pc = "s_detect"
    /\ libOps' = Append(libOps, <<"goodFeaturesToTrack">>)
    /\ keypoints' = PushCorners(features, keypoints)
    /\ pc' = "s_vis"
    /\ UNCHANGED <<inputs, calls, matches, descriptors, matcher, extractor, detector,
                   windows, waits, j, i, candidates, matches0, keypoints0>>

\* Mutant of ShiTomasiVisualize: the window is shown whatever bVis is.
ShiTomasiVisualizeAlways ==
    /\ pc = "s_vis"
    /\ windows' = windows + 1
    /\ waits' = waits + 1
    /\ pc' = "done"
    /\ UNCHANGED <<inputs, calls, matches, keypoints, descriptors, matcher, extractor,
                   detector, libOps, j, i, candidates, matches0, keypoints0>>

\* Lines 149-158: drawKeypoints reads keypoints and draws into visImage.
ShiTomasiVisualize ==
    /\ pc = "s_vis"
    /\ IF args.bVis
       THEN windows' = windows + 1 /\ waits' = waits + 1
       ELSE UNCHANGED <<windows, waits>>
    /\ pc' = "done"
    /\ UNCHANGED <<inputs, calls, matches, keypoints, descriptors, matcher, extractor,
                   detector, libOps, j, i, candidates, matches0, keypoints0>>

---------------------------------------------------------------------------
(* detKeypointsHarris, lines 161-235 *)

\* Lines 169-184: the response matrix is computed and, with bVis, shown.
HarrisResponse ==
    /\ pc = "h_response"
    /\ libOps' = Append(libOps, <<"cornerHarris">>)
    /\ IF args.bVis
       THEN windows' = windows + 1 /\ waits' = waits + 1
       ELSE UNCHANGED <<windows, waits>>
    /\ pc' = "h_clear"
    /\ UNCHANGED <<inputs, calls, matches, keypoints, descriptors, matcher, extractor,
                   detector, j, i, candidates, matches0, keypoints0>>

\* Lines 186-191
HarrisClear ==
    /\ pc = "h_clear"
    /\ keypoints' = IF keypoints # <<>> THEN <<>> ELSE keypoints
    /\ j' = 0
    /\ i' = 0
    /\ pc' = "h_scan"
    /\ UNCHANGED <<inputs, calls, matches, descriptors, matcher, extractor, detector,
                   libOps, windows, waits, candidates, matches0, keypoints0>>

\* Lines 191-222: one pixel of the scan, and the step to the next pixel.
HarrisScan ==
    /\ pc = "h_scan"
    /\ j < Rows
    /\ keypoints' = ScanPixel(keypoints, j, i)
    /\ candidates' = IF IsCandidate(Response(j, i)) THEN candidates \cup {<<j, i>>}
                     ELSE candidates
    /\ IF i + 1 < Cols
       THEN i' = i + 1 /\ j' = j
       ELSE i' = 0 /\ j' = j + 1
    /\ pc' = IF i + 1 < Cols \/ j + 1 < Rows THEN "h_scan" ELSE "h_vis"
    /\ UNCHANGED <<inputs, calls, matches, descriptors, matcher, extractor, detector,
                   libOps, windows, waits, matches0, keypoints0>>

\* Lines 223-234
HarrisVisualize ==
    /\ pc = "h_vis"
    /\ IF args.bVis
       THEN windows' = windows + 1 /\ waits' = waits + 1
       ELSE UNCHANGED <<windows, waits>>
    /\ pc' = "done"
    /\ UNCHANGED <<inputs, calls, matches, keypoints, descriptors, matcher, extractor,
                   detector, libOps, j, i, candidates, matches0, keypoints0>>

---------------------------------------------------------------------------
(* detKeypointsModern, lines 238-278 *)

\* Lines 240-264
ModernSelect ==
    /\ pc = "k_select"
    /\ LET d == SelectDetector(args.detectorType) IN
       IF d = "invalid_argument"
       THEN pc' = "thrown" /\ UNCHANGED detector
       ELSE pc' = "k_detect" /\ detector' = d
    /\ UNCHANGED <<inputs, calls, matches, keypoints, descriptors, matcher, extractor,
                   libOps, windows, waits, j, i, candidates, matches0, keypoints0>>

\* Lines 265-267
ModernDetect ==
    /\ pc = "k_detect"
    /\ libOps' = Append(libOps, <<"detect", detector>>)
    /\ keypoints' = detect(detector)
    /\ pc' = "k_vis"
    /\ UNCHANGED <<inputs, calls, matches, descriptors, matcher, extractor, detector,
                   windows, waits, j, i, candidates, matches0, keypoints0>>

\* Lines 269-277
ModernVisualize ==
    /\ pc = "k_vis"
    /\ IF args.bVis
       THEN windows' = windows + 1 /\ waits' = waits + 1
       ELSE UNCHANGED <<windows, waits>>
    /\ pc' = "done"
    /\ UNCHANGED <<inputs, calls, matches, keypoints, descriptors, matcher, extractor,
                   detector, libOps, j, i, candidates, matches0, keypoints0>>

---------------------------------------------------------------------------
(* Specifications *)

Next ==
    \/ Call
    \/ MatchConfigure
    \/ MatchSelect
    \/ DescSelect
    \/ DescCompute
    \/ ShiTomasiDetect
    \/ ShiTomasiVisualize
    \/ HarrisResponse
    \/ HarrisClear
    \/ HarrisScan
    \/ HarrisVisualize
    \/ ModernSelect
    \/ ModernDetect
    \/ ModernVisualize

\* Every function, small images.
Spec == Init /\ [][Next]_vars

NextHarris ==
    \/ Call
    \/ HarrisResponse
    \/ HarrisClear
    \/ HarrisScan
    \/ HarrisVisualize

\* detKeypointsHarris alone, on images with up to NmsCorners corner pixels.
SpecHarris == InitHarris(NmsCorners) /\ [][NextHarris]_vars

---------------------------------------------------------------------------
(* Properties *)

Detectors == {"detKeypointsShiTomasi", "detKeypointsHarris", "detKeypointsModern"}

\* The entries the running call has added behind what matches held before it.
Added == SubSeq(matches, Len(matches0) + 1, Len(matches))

\* The queries whose candidate list has two entries, the best one closer than
\* 0.8 times the second best.
Passing ==
    {q \in DOMAIN knnResult :
        /\ Len(knnResult[q]) = 2
        /\ 5 * knnResult[q][1].distance < 4 * knnResult[q][2].distance}

\* The k-th smallest element of the set of numbers S.
Nth(S, k) == CHOOSE q \in S : Cardinality({r \in S : r < q}) = k - 1

\* C1: after a SEL_KNN call the entries added to matches are, in order, the
\* best candidates of exactly the candidate lists that have two entries and
\* pass the 0.8 distance-ratio test; every other list contributes nothing.
C1_RatioFilter ==
    (fn = "matchDescriptors" /\ pc = "done" /\ args.selectorType = "SEL_KNN") =>
        /\ Len(matches) = Len(matches0) + Cardinality(Passing)
        /\ SubSeq(matches, 1, Len(matches0)) = matches0
        /\ \A k \in 1 .. Cardinality(Passing) : Added[k] = knnResult[Nth(Passing, k)][1]

\* A SEL_KNN call has returned for two candidate lists, one of which passes
\* the ratio test and one of which sits exactly on the 0.8 boundary.
C1_Witness ==
    /\ fn = "matchDescriptors" /\ pc = "done" /\ args.selectorType = "SEL_KNN"
    /\ Len(knnResult) = 2
    /\ Cardinality(Passing) = 1
    /\ \E q \in DOMAIN knnResult :
          /\ Len(knnResult[q]) = 2
          /\ knnResult[q][1].distance = 4
          /\ knnResult[q][2].distance = 5
    /\ Len(Added) = 1

\* The matcher the claim's table gives for (matcherType, descriptorType).
TableMatcher ==
    CASE args.matcherType = "MAT_BF" /\ args.descriptorType = "DES_BINARY" ->
            [type |-> "BFMatcher", normType |-> "NORM_HAMMING", crossCheck |-> FALSE,
             indexParams |-> <<>>]
      [] args.matcherType = "MAT_BF" /\ args.descriptorType = "DES_HOG" ->
            [type |-> "BFMatcher", normType |-> "NORM_L2", crossCheck |-> FALSE,
             indexParams |-> <<>>]
      [] args.matcherType = "MAT_FLANN" /\ args.descriptorType = "DES_HOG" ->
            [type |-> "FlannBasedMatcher", normType |-> "n/a", crossCheck |-> FALSE,
             indexParams |-> <<"default">>]
      [] args.matcherType = "MAT_FLANN" /\ args.descriptorType = "DES_BINARY" ->
            [type |-> "FlannBasedMatcher", normType |-> "n/a", crossCheck |-> FALSE,
             indexParams |-> <<"LshIndexParams", 12, 20, 2>>]
      [] OTHER -> NoMatcher

\* C4: the matcher is chosen from (matcherType, descriptorType) by the table
\* BF/BINARY -> Hamming, BF/HOG -> L2, FLANN/HOG -> default, FLANN/BINARY ->
\* LSH(12, 20, 2), never cross-checking, and a call that returns has delegated
\* exactly one operation to it: match for SEL_NN, knnMatch with k = 2 for SEL_KNN.
C4_MatcherSelection ==
    (fn = "matchDescriptors") =>
        /\ pc = "m_match" => matcher = TableMatcher /\ matcher.type # null
        /\ matcher.crossCheck = FALSE
        /\ pc = "done" =>
              /\ matcher = TableMatcher
              /\ matcher.type # null
              /\ args.selectorType = "SEL_NN" => libOps = << <<"match", TableMatcher>> >>
              /\ args.selectorType = "SEL_KNN" =>
                    libOps = << <<"knnMatch", TableMatcher, 2>> >>
              /\ args.selectorType \in {"SEL_NN", "SEL_KNN"}

\* A SEL_KNN call on a FLANN matcher with LSH index parameters has returned.
C4_Witness ==
    /\ fn = "matchDescriptors" /\ pc = "done"
    /\ args.matcherType = "MAT_FLANN" /\ args.descriptorType = "DES_BINARY"
    /\ args.selectorType = "SEL_KNN"
    /\ Len(libOps) = 1

InvalidMatchArgs ==
    \/ args.matcherType \notin {"MAT_BF", "MAT_FLANN"}
    \/ args.descriptorType \notin {"DES_BINARY", "DES_HOG"}
    \/ args.selectorType \notin {"SEL_NN", "SEL_KNN"}

\* C5: a call of matchDescriptors with an unrecognised matcherType,
\* descriptorType or selectorType, and a call of detKeypointsModern with an
\* unrecognised detectorType, never returns normally: it runs on to the
\* invalid_argument exception, invokes no library match or detect operation
\* and leaves matches (keypoints) as it was before the call.
C5_InvalidNamesThrow ==
    /\ (fn = "matchDescriptors" /\ InvalidMatchArgs /\ pc # "idle") =>
          /\ pc \in {"m_configure", "m_match", "thrown"}
          /\ pc # "thrown" => ENABLED (MatchConfigure \/ MatchSelect)
          /\ libOps = <<>>
          /\ matches = matches0
    /\ (fn = "detKeypointsModern" /\ args.detectorType \notin
            {"FAST", "BRISK", "ORB", "AKAZE", "SIFT"} /\ pc # "idle") =>
          /\ pc \in {"k_select", "thrown"}
          /\ pc # "thrown" => ENABLED ModernSelect
          /\ libOps = <<>>
          /\ keypoints = keypoints0

\* matchDescriptors has thrown for an unknown selectorType, after a matcher was
\* configured, on a matches container that was not empty.
C5_Witness ==
    /\ fn = "matchDescriptors" /\ pc = "thrown"
    /\ args.matcherType = "MAT_BF" /\ args.descriptorType = "DES_HOG"
    /\ args.selectorType = "SEL_RADIUS"
    /\ matcher.type = "BFMatcher"
    /\ matches0 # <<>>

\* C6: descKeypoints never invokes compute while no extractor has been
\* selected, whatever the descriptorType string.
C6_ComputeOnlyOnSelected ==
    \A k \in DOMAIN libOps : libOps[k][1] = "compute" => libOps[k][2] # null

\* The keypoints a detector call leaves behind, from the image, the detector
\* name and the container as it was before the call.
RECURSIVE ScanFrom(_, _)
ScanFrom(kps, n) ==
    IF n = Rows * Cols THEN kps
    ELSE ScanFrom(ScanPixel(kps, n \div Cols, n % Cols), n + 1)

DetectorResult(before) ==
    CASE fn = "detKeypointsShiTomasi" ->
            before \o [k \in DOMAIN features |-> KeyPoint(features[k], 4, 0)]
      [] fn = "detKeypointsHarris" -> ScanFrom(<<>>, 0)
      [] fn = "detKeypointsModern" -> [k \in DOMAIN features |-> KeyPoint(features[k], 7, 0)]

\* C7: in the three detectors a call with bVis = false opens no window and
\* waits for no key, and the keypoints a call returns are fixed by the image,
\* the keypoints before the call and the detector name alone, so that they are
\* the same with bVis = true and with bVis = false.
C7_VisualizationHasNoEffect ==
    (fn \in Detectors) =>
        /\ ~args.bVis => windows = 0 /\ waits = 0
        /\ pc = "done" => keypoints = DetectorResult(keypoints0)

\* A Harris call with bVis = true has shown both of its windows and returned
\* a keypoint.
C7_Witness ==
    /\ fn = "detKeypointsHarris" /\ pc = "done"
    /\ args.bVis
    /\ windows = 2 /\ waits = 2
    /\ keypoints # <<>>

Scanned == {p \in Pixels : p[1] < j \/ (p[1] = j /\ p[2] < i)}

InScan == fn = "detKeypointsHarris" /\ pc \in {"h_scan", "h_vis", "done"}

\* C2: after every step of the Harris scan no two distinct keypoints of the
\* list overlap by more than maxOverlap (0.0).
C2_NoOverlapInList ==
    InScan =>
        \A a, b \in DOMAIN keypoints :
            a # b => ~(overlap(keypoints[a], keypoints[b]) > 0)

\* C3: when the Harris scan has finished, every pixel whose response exceeded
\* the threshold is the position of a returned keypoint or is overlapped by a
\* returned keypoint whose response is at least the pixel's.
C3_OnlyNonMaximaSuppressed ==
    (fn = "detKeypointsHarris" /\ pc \in {"h_vis", "done"}) =>
        \A p \in Pixels :
            Response(p[1], p[2]) > 100 =>
                \E k \in DOMAIN keypoints :
                    \/ keypoints[k].pt = <<p[2], p[1]>>
                    \/ /\ overlap(KeyPoint(<<p[2], p[1]>>, 6, Response(p[1], p[2])),
                                  keypoints[k]) > 0
                       /\ keypoints[k].response >= Response(p[1], p[2])

\* C8: a pixel is taken as a corner candidate exactly when its integer
\* response is at least minResponse (100); every keypoint of the list has a
\* response of at least 100 that is the response of the pixel at its position.
C8_MinResponseIsMinimum ==
    InScan =>
        /\ \A p \in Scanned : p \in candidates <=> Response(p[1], p[2]) >= 100
        /\ \A k \in DOMAIN keypoints :
              /\ keypoints[k].response >= 100
              /\ keypoints[k].response = Response(keypoints[k].pt[2], keypoints[k].pt[1])

\* C9: whatever matches held before, a matchDescriptors call that returns
\* leaves in it what a single call on an empty container leaves.
C9_MatchesIndependentOfBefore ==
    (fn = "matchDescriptors" /\ pc = "done") =>
        matches = IF args.selectorType = "SEL_NN"
                  THEN Heads(knnResult)
                  ELSE [k \in 1 .. Cardinality(Passing) |-> knnResult[Nth(Passing, k)][1]]

\* C10: whatever keypoints held before, a detector call that returns leaves in
\* it what a single call on an empty container leaves.
C10_KeypointsIndependentOfBefore ==
    (fn \in Detectors /\ pc = "done") => keypoints = DetectorResult(<<>>)

=============================================================================
